---- MODULE Spec2Model ----
(***************************************************************************)
(* Job-board REST API (FastAPI + SQLAlchemy): users, jobs, applied_jobs,   *)
(* JWT bearer authentication and role-gated handlers.                      *)
(*                                                                         *)
(* The store is the three tables; every route handler is one action that   *)
(* runs from dependency resolution (get_current_user) to its commit.  The  *)
(* response of the request handled by a step is recorded in `last`.        *)
(* `tokens` is the token the client obtained at its latest login, `now`    *)
(* the clock in minutes, `pending` the create_job_application requests     *)
(* that have passed their checks and not yet committed (SpecRace only),    *)
(* `sessions` the database sessions that get_db has opened (SpecSession).   *)
(* Primary keys are allocated as SQLite does (max + 1), the engine of the  *)
(* test suite.                                                             *)
(***************************************************************************)
EXTENDS Integers, FiniteSets, Sequences, TLC

VARIABLES users, jobs, applied_jobs, tokens, now, last, pending, sessions

vars == <<users, jobs, applied_jobs, tokens, now, last, pending, sessions>>
store == <<users, jobs, applied_jobs>>

(***************************************************************************)
(* Bounds of the model.                                                    *)
(***************************************************************************)
MaxUserId == 2
MaxJobId == 1
MaxAppId == 2
MaxClock == 2
MaxRequests == 2
MaxListed == 3
MaxSessions == 4

(***************************************************************************)
(* Program constants and input domains.                                    *)
(***************************************************************************)
\* routers/auth.py: timedelta(minutes=60) in create_token
ExpireMinutes == 60

\* models.py: class UserRole
UserRole == {"USER", "RECRUITER", "ADMIN"}

\* the clock advances in steps of one token lifetime
ClockStep == ExpireMinutes
NeverExpires == MaxClock * ClockStep + ExpireMinutes

SECRET_KEY == "SECRET_KEY"
OtherKey == "other-secret"

Usernames == {"jane_doe", "john_doe"}
Emails == {"janedoe@mail.com", "johndoe@mail.com"}
Passwords == {"test1234", "test12345"}
Names == {[first_name |-> "Jane", last_name |-> "Doe"]}
Salts == {"salt1"}

NoData == [none |-> TRUE]
NoRequest == [op |-> "none", status |-> 0, detail |-> "", data |-> NoData]

Max(S) == CHOOSE x \in S : \A y \in S : y <= x

\* SQLite rowid allocation for an INTEGER PRIMARY KEY: max(id) + 1
NextId(rows) == IF rows = {} THEN 1 ELSE Max({r.id : r \in rows}) + 1

(***************************************************************************)
(* Credential service.                                                     *)
(***************************************************************************)
\* bcrypt_context.hash: a salted one-way digest; the salt is stored in the hash
bcrypt_hash(password, salt) ==
    [salt |-> salt, digest |-> <<"bcrypt", salt, password>>]

\* bcrypt_context.verify: recompute the digest with the stored salt and compare
bcrypt_verify(password, hashed) ==
    bcrypt_hash(password, hashed.salt).digest = hashed.digest

\* jwt.encode(payload, key): the payload and the key that signed it.
\* A None user_id or username is a claim that is absent from the payload.
jwt_encode(payload, key) == [payload |-> payload, key |-> key]

\* create_access_token without the lifetime added to the issuance time
create_access_token_exp_zero(user_id, username, user_role, expire, t) ==
    jwt_encode([id |-> user_id, sub |-> username, role |-> user_role,
                exp |-> t], SECRET_KEY)

create_access_token(user_id, username, user_role, expire, t) ==
    jwt_encode([id |-> user_id, sub |-> username, role |-> user_role,
                exp |-> t + expire], SECRET_KEY)

\* jwt.decode(token, SECRET_KEY): signature check, then exp check
\* (python-jose raises ExpiredSignatureError when exp < now)
\* jwt.decode without the signature check
jwt_decode_no_signature(token, t) ==
    IF token.payload.exp < t
    THEN [ok |-> FALSE]
    ELSE [ok |-> TRUE, payload |-> token.payload]

jwt_decode(token, t) ==
    IF token.key # SECRET_KEY \/ token.payload.exp < t
    THEN [ok |-> FALSE]
    ELSE [ok |-> TRUE, payload |-> token.payload]

payload_role(payload) ==
    IF "role" \in DOMAIN payload THEN payload.role ELSE "None"

\* get_current_user without the test for a missing id
get_current_user_no_id_check(token, t) ==
    LET decoded == jwt_decode(token, t) IN
    IF ~decoded.ok THEN [ok |-> FALSE]
    ELSE IF "sub" \notin DOMAIN decoded.payload THEN [ok |-> FALSE]
    ELSE [ok |-> TRUE,
          claim |-> [id |-> IF "id" \in DOMAIN decoded.payload
                            THEN decoded.payload.id ELSE 1,
                     username |-> decoded.payload.sub,
                     role |-> payload_role(decoded.payload)]]

\* get_current_user looking the claimed user up in the users table
get_current_user_checking_store(token, t) ==
    LET decoded == jwt_decode(token, t) IN
    IF ~decoded.ok THEN [ok |-> FALSE]
    ELSE IF "id" \notin DOMAIN decoded.payload
            \/ "sub" \notin DOMAIN decoded.payload THEN [ok |-> FALSE]
    ELSE IF \A u \in users : u.id # decoded.payload.id
                             \/ u.username # decoded.payload.sub
    THEN [ok |-> FALSE]
    ELSE [ok |-> TRUE,
          claim |-> [id |-> decoded.payload.id,
                     username |-> decoded.payload.sub,
                     role |-> payload_role(decoded.payload)]]

get_current_user(token, t) ==
    LET decoded == jwt_decode(token, t) IN
    IF ~decoded.ok THEN [ok |-> FALSE]
    ELSE IF "id" \notin DOMAIN decoded.payload
            \/ "sub" \notin DOMAIN decoded.payload THEN [ok |-> FALSE]
    ELSE [ok |-> TRUE,
          claim |-> [id |-> decoded.payload.id,
                     username |-> decoded.payload.sub,
                     role |-> payload_role(decoded.payload)]]

WrongKeyToken ==
    jwt_encode([id |-> 1, sub |-> "jane_doe", role |-> "ADMIN",
                exp |-> NeverExpires], OtherKey)

\* Tokens that no login issued: signed with another key, or signed by
\* create_access_token with user_id / username None (tests/test_auth.py)
ForgedTokens ==
    { WrongKeyToken,
      jwt_encode([role |-> "ADMIN", exp |-> NeverExpires],
                 SECRET_KEY),
      jwt_encode([id |-> 1, role |-> "ADMIN",
                  exp |-> NeverExpires], SECRET_KEY),
      jwt_encode([sub |-> "jane_doe", role |-> "ADMIN",
                  exp |-> NeverExpires], SECRET_KEY) }

\* tokens holds the token of the client's latest login
PresentedTokens == tokens \cup ForgedTokens

(***************************************************************************)
(* Responses.                                                              *)
(***************************************************************************)
Reply(op, status, detail, data) ==
    last' = [op |-> op, status |-> status, detail |-> detail, data |-> data]

Unauthorized(op) ==
    /\ Reply(op, 401, "Could not validate credentials", NoData)
    /\ UNCHANGED <<users, jobs, applied_jobs, tokens, now, pending, sessions>>

Rejected(op, status, detail) ==
    /\ Reply(op, status, detail, NoData)
    /\ UNCHANGED <<users, jobs, applied_jobs, tokens, now, pending, sessions>>

UserById(id) == {u \in users : u.id = id}
JobById(id) == {j \in jobs : j.id = id}

\* the whole row serialised
UserResponse_whole_row(u) == u

UserResponse(u) ==
    [id |-> u.id, first_name |-> u.first_name, last_name |-> u.last_name,
     username |-> u.username, email |-> u.email, role |-> u.role]

(***************************************************************************)
(* Query helpers.                                                          *)
(***************************************************************************)
\* SQL ILIKE '%pattern%' on the values the model uses, tabulated
ILikeTable ==
    { <<"jan", "Jane">>, <<"JAN", "Jane">>, <<"doe", "Doe">>,
      <<"test", "Test Job">>, <<"job", "Test Job">>, <<"job", "Other Job">>,
      <<"other", "Other Job">> }

ilike(column, pattern) == <<pattern, column>> \in ILikeTable

\* count // page_size
CeilDiv_floor(count, page_size) == count \div page_size

\* (count + page_size - 1) // page_size
CeilDiv(count, page_size) == (count + page_size - 1) \div page_size

\* query.limit(page_size).offset(offset).all() over rows in primary-key order
RECURSIVE SortedById(_)
SortedById(rows) ==
    IF rows = {} THEN <<>>
    ELSE LET first == CHOOSE r \in rows : \A q \in rows : r.id <= q.id
         IN <<first>> \o SortedById(rows \ {first})

LimitOffset(rows, page_size, offset) ==
    LET sorted == SortedById(rows) IN
    SubSeq(sorted, offset + 1,
           IF offset + page_size < Len(sorted) THEN offset + page_size
           ELSE Len(sorted))

(***************************************************************************)
(* database.py: get_db, the session dependency of every route.             *)
(***************************************************************************)
\* db = SessionLocal(); yield db: the request gets a new, open session
get_db_enter ==
    /\ \A s \in sessions : s.pc = "done"
    /\ NextId(sessions) <= MaxSessions
    /\ sessions' = sessions \cup
          {[id |-> NextId(sessions), pc |-> "yielded", open |-> TRUE,
            closes |-> 0]}
    /\ last' = NoRequest
    /\ UNCHANGED <<users, jobs, applied_jobs, tokens, now, pending>>

\* the route handler runs while the generator is suspended at its yield
InHandler == last = NoRequest /\ \E s \in sessions : s.pc = "yielded"

\* how the handler left: it returned (2xx), raised an HTTPException (4xx), or
\* its commit raised (500)
ExitPath(response) ==
    IF response.status < 400 THEN "return"
    ELSE IF response.status < 500 THEN "HTTPException"
    ELSE "commit raised"

\* get_db with db.close() after the yield and no try / finally: an exception
\* thrown into the generator leaves it before the close
get_db_close_after_yield(s) ==
    /\ s.pc = "yielded"
    /\ last # NoRequest
    /\ sessions' = (sessions \ {s}) \cup
          {IF ExitPath(last) = "return"
           THEN [s EXCEPT !.pc = "done", !.open = FALSE, !.closes = @ + 1]
           ELSE [s EXCEPT !.pc = "done"]}
    /\ UNCHANGED <<users, jobs, applied_jobs, tokens, now, last, pending>>

\* finally: db.close(), on every exit path of the handler
get_db_finally(s) ==
    /\ s.pc = "yielded"
    /\ last # NoRequest
    /\ ExitPath(last) \in {"return", "HTTPException", "commit raised"}
    /\ sessions' = (sessions \ {s}) \cup
          {[s EXCEPT !.pc = "done", !.open = FALSE, !.closes = @ + 1]}
    /\ UNCHANGED <<users, jobs, applied_jobs, tokens, now, last, pending>>

(***************************************************************************)
(* routers/users.py                                                        *)
(***************************************************************************)
read_users(token, first_name, last_name, page, page_size) ==
    LET auth == get_current_user(token, now) IN
    IF ~auth.ok THEN Unauthorized("read_users")
    ELSE LET requesting_user == UserById(auth.claim.id) IN
    IF requesting_user = {} THEN Rejected("read_users", 404, "User not found")
    ELSE IF (CHOOSE u \in requesting_user : TRUE).role # "ADMIN"
    THEN Rejected("read_users", 403,
                  "You do not have permission to perform this action")
    ELSE LET query == {u \in users :
                         /\ first_name # "" => ilike(u.first_name, first_name)
                         /\ last_name # "" => ilike(u.last_name, last_name)}
             filtered_user_count == Cardinality(query)
             offset == (page - 1) * page_size
             page_rows == LimitOffset(query, page_size, offset)
         IN /\ Reply("read_users", 200, "Users retrieved successfully",
                     [page |-> page, page_size |-> page_size,
                      total_users |-> Cardinality(users),
                      filtered_user_count |-> filtered_user_count,
                      total_pages |-> CeilDiv(filtered_user_count, page_size),
                      users |-> [i \in 1..Len(page_rows) |->
                                    UserResponse(page_rows[i])]])
            /\ UNCHANGED <<users, jobs, applied_jobs, tokens, now, pending, sessions>>

\* create_user looking for the email only
create_user_email_only(request, salt) ==
    IF \E u \in users : u.email = request.email
    THEN Rejected("create_user", 400, "Email or username already registered")
    ELSE LET user == [id |-> NextId(users),
                      first_name |-> request.first_name,
                      last_name |-> request.last_name,
                      email |-> request.email,
                      username |-> request.username,
                      hashed_password |-> bcrypt_hash(request.password, salt),
                      role |-> request.role]
         IN /\ user.id <= MaxUserId
            /\ users' = users \cup {user}
            /\ Reply("create_user", 201, "User successfully registered",
                     UserResponse(user))
            /\ UNCHANGED <<jobs, applied_jobs, tokens, now, pending, sessions>>

create_user(request, salt) ==
    IF \E u \in users : u.email = request.email \/ u.username = request.username
    THEN Rejected("create_user", 400, "Email or username already registered")
    ELSE LET user == [id |-> NextId(users),
                      first_name |-> request.first_name,
                      last_name |-> request.last_name,
                      email |-> request.email,
                      username |-> request.username,
                      hashed_password |-> bcrypt_hash(request.password, salt),
                      role |-> request.role]
         IN /\ user.id <= MaxUserId
            /\ users' = users \cup {user}
            /\ Reply("create_user", 201, "User successfully registered",
                     UserResponse(user))
            /\ UNCHANGED <<jobs, applied_jobs, tokens, now, pending, sessions>>

\* create_user, its session interleaved with other requests: the existence
\* query runs first, the insert and commit later
create_user_begin(rid, request, salt) ==
    /\ \A r \in pending : r.rid # rid
    /\ IF \E u \in users : u.email = request.email \/ u.username = request.username
       THEN Rejected("create_user", 400, "Email or username already registered")
       ELSE /\ pending' = pending \cup
                  {[rid |-> rid,
                    user |-> [first_name |-> request.first_name,
                              last_name |-> request.last_name,
                              email |-> request.email,
                              username |-> request.username,
                              hashed_password |-> bcrypt_hash(request.password, salt),
                              role |-> request.role]]}
            /\ last' = NoRequest
            /\ UNCHANGED <<users, jobs, applied_jobs, tokens, now, sessions>>

\* the commit into a users table without unique constraints
create_user_commit_no_constraint(r) ==
    LET user == [id |-> NextId(users),
                 first_name |-> r.user.first_name,
                 last_name |-> r.user.last_name,
                 email |-> r.user.email,
                 username |-> r.user.username,
                 hashed_password |-> r.user.hashed_password,
                 role |-> r.user.role]
    IN /\ user.id <= MaxUserId
       /\ users' = users \cup {user}
       /\ pending' = pending \ {r}
       /\ Reply("create_user", 201, "User successfully registered",
                UserResponse(user))
       /\ UNCHANGED <<jobs, applied_jobs, tokens, now, sessions>>

\* db.add(user); db.commit(): the insert fails on the unique constraints of
\* users.username and users.email, and the request ends in a server error
create_user_commit(r) ==
    IF \E u \in users : u.email = r.user.email \/ u.username = r.user.username
    THEN /\ pending' = pending \ {r}
         /\ Reply("create_user", 500, "Internal Server Error", NoData)
         /\ UNCHANGED <<users, jobs, applied_jobs, tokens, now, sessions>>
    ELSE LET user == [id |-> NextId(users),
                      first_name |-> r.user.first_name,
                      last_name |-> r.user.last_name,
                      email |-> r.user.email,
                      username |-> r.user.username,
                      hashed_password |-> r.user.hashed_password,
                      role |-> r.user.role]
         IN /\ user.id <= MaxUserId
            /\ users' = users \cup {user}
            /\ pending' = pending \ {r}
            /\ Reply("create_user", 201, "User successfully registered",
                     UserResponse(user))
            /\ UNCHANGED <<jobs, applied_jobs, tokens, now, sessions>>

\* delete_user over a Users.applied_jobs relationship without the cascade
delete_user_no_cascade(token, user_id) ==
    LET auth == get_current_user(token, now) IN
    IF ~auth.ok THEN Unauthorized("delete_user")
    ELSE LET user == UserById(user_id) IN
    IF user = {} THEN Rejected("delete_user", 404, "User not found")
    ELSE IF auth.claim.role # "ADMIN" \/ auth.claim.id # user_id
    THEN Rejected("delete_user", 403,
                  "You do not have permission to perform this action")
    ELSE /\ users' = users \ user
         /\ Reply("delete_user", 204, "", NoData)
         /\ UNCHANGED <<jobs, applied_jobs, tokens, now, pending, sessions>>

\* db.delete(user): the relationship Users.applied_jobs cascades the delete
delete_user(token, user_id) ==
    LET auth == get_current_user(token, now) IN
    IF ~auth.ok THEN Unauthorized("delete_user")
    ELSE LET user == UserById(user_id) IN
    IF user = {} THEN Rejected("delete_user", 404, "User not found")
    ELSE IF auth.claim.role # "ADMIN" \/ auth.claim.id # user_id
    THEN Rejected("delete_user", 403,
                  "You do not have permission to perform this action")
    ELSE /\ users' = users \ user
         /\ applied_jobs' = {a \in applied_jobs : a.user_id # user_id}
         /\ Reply("delete_user", 204, "", NoData)
         /\ UNCHANGED <<jobs, tokens, now, pending, sessions>>

(***************************************************************************)
(* routers/auth.py                                                         *)
(***************************************************************************)
\* create_token without the password verification
create_token_no_verify(username, password) ==
    LET found == {u \in users : u.username = username} IN
    IF found = {}
    THEN Rejected("create_token", 404, "User not found")
    ELSE LET user == CHOOSE u \in found : TRUE
             token == create_access_token(user.id, user.username, user.role,
                                          ExpireMinutes, now)
         IN /\ Reply("create_token", 201, "",
                     [access_token |-> token, token_type |-> "bearer"])
            /\ tokens' = {token}
            /\ UNCHANGED <<users, jobs, applied_jobs, now, pending, sessions>>

create_token(username, password) ==
    LET found == {u \in users : u.username = username} IN
    IF found = {}
    THEN Rejected("create_token", 404, "User not found")
    ELSE LET user == CHOOSE u \in found : TRUE IN
    IF ~bcrypt_verify(password, user.hashed_password)
    THEN Rejected("create_token", 401, "Incorrect password")
    ELSE LET token == create_access_token(user.id, user.username, user.role,
                                          ExpireMinutes, now)
         IN /\ Reply("create_token", 201, "",
                     [access_token |-> token, token_type |-> "bearer"])
            /\ tokens' = {token}
            /\ UNCHANGED <<users, jobs, applied_jobs, now, pending, sessions>>

(***************************************************************************)
(* routers/profile.py                                                      *)
(***************************************************************************)
read_user(token) ==
    LET auth == get_current_user(token, now) IN
    IF ~auth.ok THEN Unauthorized("read_user")
    ELSE LET found == UserById(auth.claim.id) IN
    IF found = {} THEN Rejected("read_user", 404, "User not found")
    ELSE /\ Reply("read_user", 200, "User profile retrieved successfully",
                  UserResponse(CHOOSE u \in found : TRUE))
         /\ UNCHANGED <<users, jobs, applied_jobs, tokens, now, pending, sessions>>

\* change_password hashing the old password
change_password_hashes_old(token, password_update, salt) ==
    LET auth == get_current_user(token, now) IN
    IF ~auth.ok THEN Unauthorized("change_password")
    ELSE LET found == UserById(auth.claim.id) IN
    IF found = {} THEN Rejected("change_password", 404, "User not found")
    ELSE LET user == CHOOSE u \in found : TRUE IN
    IF ~bcrypt_verify(password_update.old_password, user.hashed_password)
    THEN Rejected("change_password", 400, "Wrong old password")
    ELSE IF password_update.new_password # password_update.confirm_password
    THEN Rejected("change_password", 400, "Passwords do not match")
    ELSE /\ users' = (users \ {user}) \cup
                     {[user EXCEPT !.hashed_password =
                          bcrypt_hash(password_update.old_password, salt)]}
         /\ Reply("change_password", 204, "", NoData)
         /\ UNCHANGED <<jobs, applied_jobs, tokens, now, pending, sessions>>

\* change_password comparing the confirmation before verifying the old password
change_password_confirm_first(token, password_update, salt) ==
    LET auth == get_current_user(token, now) IN
    IF ~auth.ok THEN Unauthorized("change_password")
    ELSE LET found == UserById(auth.claim.id) IN
    IF found = {} THEN Rejected("change_password", 404, "User not found")
    ELSE LET user == CHOOSE u \in found : TRUE IN
    IF password_update.new_password # password_update.confirm_password
    THEN Rejected("change_password", 400, "Passwords do not match")
    ELSE IF ~bcrypt_verify(password_update.old_password, user.hashed_password)
    THEN Rejected("change_password", 400, "Wrong old password")
    ELSE /\ users' = (users \ {user}) \cup
                     {[user EXCEPT !.hashed_password =
                          bcrypt_hash(password_update.new_password, salt)]}
         /\ Reply("change_password", 204, "", NoData)
         /\ UNCHANGED <<jobs, applied_jobs, tokens, now, pending, sessions>>

change_password(token, password_update, salt) ==
    LET auth == get_current_user(token, now) IN
    IF ~auth.ok THEN Unauthorized("change_password")
    ELSE LET found == UserById(auth.claim.id) IN
    IF found = {} THEN Rejected("change_password", 404, "User not found")
    ELSE LET user == CHOOSE u \in found : TRUE IN
    IF ~bcrypt_verify(password_update.old_password, user.hashed_password)
    THEN Rejected("change_password", 400, "Wrong old password")
    ELSE IF password_update.new_password # password_update.confirm_password
    THEN Rejected("change_password", 400, "Passwords do not match")
    ELSE /\ users' = (users \ {user}) \cup
                     {[user EXCEPT !.hashed_password =
                          bcrypt_hash(password_update.new_password, salt)]}
         /\ Reply("change_password", 204, "", NoData)
         /\ UNCHANGED <<jobs, applied_jobs, tokens, now, pending, sessions>>

\* db.commit() of an UPDATE violating unique=True on username / email raises
\* IntegrityError, which no handler catches: 500, nothing committed
\* update_user over a users table without the unique constraints
update_user_no_unique(token, update) ==
    LET auth == get_current_user(token, now) IN
    IF ~auth.ok THEN Unauthorized("update_user")
    ELSE LET found == UserById(auth.claim.id) IN
    IF found = {} THEN Rejected("update_user", 404, "User not found")
    ELSE LET user == CHOOSE u \in found : TRUE
             updated == [user EXCEPT !.first_name = update.first_name,
                                     !.last_name = update.last_name,
                                     !.username = update.username,
                                     !.email = update.email,
                                     !.role = update.role]
         IN /\ users' = (users \ {user}) \cup {updated}
            /\ Reply("update_user", 204, "", NoData)
            /\ UNCHANGED <<jobs, applied_jobs, tokens, now, pending, sessions>>

\* update_user without the assignment of role
update_user_keeps_role(token, update) ==
    LET auth == get_current_user(token, now) IN
    IF ~auth.ok THEN Unauthorized("update_user")
    ELSE LET found == UserById(auth.claim.id) IN
    IF found = {} THEN Rejected("update_user", 404, "User not found")
    ELSE LET user == CHOOSE u \in found : TRUE
             updated == [user EXCEPT !.first_name = update.first_name,
                                     !.last_name = update.last_name,
                                     !.username = update.username,
                                     !.email = update.email]
         IN IF \E o \in users \ {user} :
                  o.username = updated.username \/ o.email = updated.email
            THEN Rejected("update_user", 500, "Internal Server Error")
            ELSE /\ users' = (users \ {user}) \cup {updated}
                 /\ Reply("update_user", 204, "", NoData)
                 /\ UNCHANGED <<jobs, applied_jobs, tokens, now, pending, sessions>>

\* update_user assigning the role only for an acting ADMIN
update_user_role_guarded(token, update) ==
    LET auth == get_current_user(token, now) IN
    IF ~auth.ok THEN Unauthorized("update_user")
    ELSE LET found == UserById(auth.claim.id) IN
    IF found = {} THEN Rejected("update_user", 404, "User not found")
    ELSE LET user == CHOOSE u \in found : TRUE
             updated == [user EXCEPT !.first_name = update.first_name,
                                     !.last_name = update.last_name,
                                     !.username = update.username,
                                     !.email = update.email,
                                     !.role = IF user.role = "ADMIN"
                                              THEN update.role ELSE user.role]
         IN IF \E o \in users \ {user} :
                  o.username = updated.username \/ o.email = updated.email
            THEN Rejected("update_user", 500, "Internal Server Error")
            ELSE /\ users' = (users \ {user}) \cup {updated}
                 /\ Reply("update_user", 204, "", NoData)
                 /\ UNCHANGED <<jobs, applied_jobs, tokens, now, pending, sessions>>

update_user(token, update) ==
    LET auth == get_current_user(token, now) IN
    IF ~auth.ok THEN Unauthorized("update_user")
    ELSE LET found == UserById(auth.claim.id) IN
    IF found = {} THEN Rejected("update_user", 404, "User not found")
    ELSE LET user == CHOOSE u \in found : TRUE
             updated == [user EXCEPT !.first_name = update.first_name,
                                     !.last_name = update.last_name,
                                     !.username = update.username,
                                     !.email = update.email,
                                     !.role = update.role]
         IN IF \E o \in users \ {user} :
                  o.username = updated.username \/ o.email = updated.email
            THEN Rejected("update_user", 500, "Internal Server Error")
            ELSE /\ users' = (users \ {user}) \cup {updated}
                 /\ Reply("update_user", 204, "", NoData)
                 /\ UNCHANGED <<jobs, applied_jobs, tokens, now, pending, sessions>>


(***************************************************************************)
(* routers/jobs.py                                                         *)
(***************************************************************************)
\* the columns of Jobs that JobRequest.model_dump() sets and the filters read
JobRow(id, job_request) ==
    [id |-> id, title |-> job_request.title, company |-> job_request.company,
     location |-> job_request.location, min_salary |-> job_request.min_salary,
     max_salary |-> job_request.max_salary,
     remote_allowed |-> job_request.remote_allowed,
     views |-> job_request.views]

\* read_jobs filtering on min_salary > the parameter
read_jobs_strict_min(title, min_salary, max_salary, remote_allowed, page, page_size) ==
    LET query == {j \in jobs :
                    /\ title # "" => ilike(j.title, title)
                    /\ min_salary # <<>> => j.min_salary > min_salary[1]
                    /\ max_salary # <<>> => j.max_salary <= max_salary[1]
                    /\ remote_allowed # <<>> =>
                           j.remote_allowed = remote_allowed[1]}
        filtered_jobs_count == Cardinality(query)
        offset == (page - 1) * page_size
        page_rows == LimitOffset(query, page_size, offset)
    IN /\ Reply("read_jobs", 200, "Jobs retrieved successfully",
                [page |-> page, page_size |-> page_size,
                 total_jobs |-> Cardinality(jobs),
                 filtered_jobs_count |-> filtered_jobs_count,
                 total_pages |-> CeilDiv(filtered_jobs_count, page_size),
                 jobs |-> page_rows])
       /\ UNCHANGED <<users, jobs, applied_jobs, tokens, now, pending, sessions>>

\* Optional query parameters: "" (str) and <<>> (int, bool) stand for None
read_jobs(title, min_salary, max_salary, remote_allowed, page, page_size) ==
    LET query == {j \in jobs :
                    /\ title # "" => ilike(j.title, title)
                    /\ min_salary # <<>> => j.min_salary >= min_salary[1]
                    /\ max_salary # <<>> => j.max_salary <= max_salary[1]
                    /\ remote_allowed # <<>> =>
                           j.remote_allowed = remote_allowed[1]}
        filtered_jobs_count == Cardinality(query)
        offset == (page - 1) * page_size
        page_rows == LimitOffset(query, page_size, offset)
    IN /\ Reply("read_jobs", 200, "Jobs retrieved successfully",
                [page |-> page, page_size |-> page_size,
                 total_jobs |-> Cardinality(jobs),
                 filtered_jobs_count |-> filtered_jobs_count,
                 total_pages |-> CeilDiv(filtered_jobs_count, page_size),
                 jobs |-> page_rows])
       /\ UNCHANGED <<users, jobs, applied_jobs, tokens, now, pending, sessions>>

\* read_applied_jobs without the filter on user_id
read_applied_jobs_all_rows(token, page, page_size) ==
    LET auth == get_current_user(token, now) IN
    IF ~auth.ok THEN Unauthorized("read_applied_jobs")
    ELSE LET found == UserById(auth.claim.id) IN
    IF found = {} THEN Rejected("read_applied_jobs", 404, "User not found")
    ELSE LET offset == (page - 1) * page_size
             page_rows == LimitOffset(applied_jobs, page_size, offset)
             applied_jobs_total == Len(page_rows)
         IN /\ Reply("read_applied_jobs", 200,
                     IF applied_jobs_total > 0
                     THEN "Applied Jobs retrieved successfully"
                     ELSE "No applied jobs found",
                     [page |-> page, page_size |-> page_size,
                      applied_jobs_count |-> applied_jobs_total,
                      total_pages |-> CeilDiv(applied_jobs_total, page_size),
                      jobs |-> page_rows])
            /\ UNCHANGED <<users, jobs, applied_jobs, tokens, now, pending, sessions>>

\* read_applied_jobs querying by the token id without loading the user
read_applied_jobs_no_user_check(token, page, page_size) ==
    LET auth == get_current_user(token, now) IN
    IF ~auth.ok THEN Unauthorized("read_applied_jobs")
    ELSE LET offset == (page - 1) * page_size
             page_rows == LimitOffset({a \in applied_jobs :
                                         a.user_id = auth.claim.id},
                                      page_size, offset)
             applied_jobs_total == Len(page_rows)
         IN /\ Reply("read_applied_jobs", 200,
                     IF applied_jobs_total > 0
                     THEN "Applied Jobs retrieved successfully"
                     ELSE "No applied jobs found",
                     [page |-> page, page_size |-> page_size,
                      applied_jobs_count |-> applied_jobs_total,
                      total_pages |-> CeilDiv(applied_jobs_total, page_size),
                      jobs |-> page_rows])
            /\ UNCHANGED <<users, jobs, applied_jobs, tokens, now, pending, sessions>>

read_applied_jobs(token, page, page_size) ==
    LET auth == get_current_user(token, now) IN
    IF ~auth.ok THEN Unauthorized("read_applied_jobs")
    ELSE LET found == UserById(auth.claim.id) IN
    IF found = {} THEN Rejected("read_applied_jobs", 404, "User not found")
    ELSE LET user == CHOOSE u \in found : TRUE
             offset == (page - 1) * page_size
             page_rows == LimitOffset({a \in applied_jobs : a.user_id = user.id},
                                      page_size, offset)
             applied_jobs_total == Len(page_rows)
         IN /\ Reply("read_applied_jobs", 200,
                     IF applied_jobs_total > 0
                     THEN "Applied Jobs retrieved successfully"
                     ELSE "No applied jobs found",
                     [page |-> page, page_size |-> page_size,
                      applied_jobs_count |-> applied_jobs_total,
                      total_pages |-> CeilDiv(applied_jobs_total, page_size),
                      jobs |-> page_rows])
            /\ UNCHANGED <<users, jobs, applied_jobs, tokens, now, pending, sessions>>

\* read_job counting the view it serves
read_job_counting_views(job_id) ==
    LET found == JobById(job_id) IN
    IF found = {} THEN Rejected("read_job", 404, "Job not found")
    ELSE LET job == CHOOSE j \in found : TRUE
             viewed == [job EXCEPT !.views = job.views + 1]
         IN /\ jobs' = (jobs \ found) \cup {viewed}
            /\ Reply("read_job", 200, "Job retrieved successfully", viewed)
            /\ UNCHANGED <<users, applied_jobs, tokens, now, pending, sessions>>

read_job(job_id) ==
    LET found == JobById(job_id) IN
    IF found = {} THEN Rejected("read_job", 404, "Job not found")
    ELSE /\ Reply("read_job", 200, "Job retrieved successfully",
                  CHOOSE j \in found : TRUE)
         /\ UNCHANGED <<users, jobs, applied_jobs, tokens, now, pending, sessions>>

\* The queries of create_job_application up to the duplicate check; status 0
\* means every check passed
\* the checks without the existing-application query
application_checks_no_duplicate_check(claim, job_id) ==
    IF JobById(job_id) = {}
    THEN [status |-> 404, detail |-> "Job not found"]
    ELSE IF claim.id = 0
    THEN [status |-> 400, detail |-> "Invalid user credentials"]
    ELSE IF UserById(claim.id) = {}
    THEN [status |-> 404, detail |-> "User not found"]
    ELSE [status |-> 0, detail |-> ""]

\* the checks with the user looked up before the job
application_checks_user_first(claim, job_id) ==
    IF claim.id = 0
    THEN [status |-> 400, detail |-> "Invalid user credentials"]
    ELSE IF UserById(claim.id) = {}
    THEN [status |-> 404, detail |-> "User not found"]
    ELSE IF JobById(job_id) = {}
    THEN [status |-> 404, detail |-> "Job not found"]
    ELSE IF \E a \in applied_jobs : a.user_id = claim.id /\ a.job_id = job_id
    THEN [status |-> 400, detail |-> "You have already applied for this job"]
    ELSE [status |-> 0, detail |-> ""]

application_checks(claim, job_id) ==
    IF JobById(job_id) = {}
    THEN [status |-> 404, detail |-> "Job not found"]
    ELSE IF claim.id = 0
    THEN [status |-> 400, detail |-> "Invalid user credentials"]
    ELSE IF UserById(claim.id) = {}
    THEN [status |-> 404, detail |-> "User not found"]
    ELSE IF \E a \in applied_jobs : a.user_id = claim.id /\ a.job_id = job_id
    THEN [status |-> 400, detail |-> "You have already applied for this job"]
    ELSE [status |-> 0, detail |-> ""]

\* an application created with another status
new_application_reviewed(user_id, job_id) ==
    [id |-> NextId(applied_jobs), user_id |-> user_id, job_id |-> job_id,
     applied_at |-> now, application_status |-> "Reviewed"]

\* AppliedJobs(...); db.add; db.commit: applied_jobs has no unique constraint
\* on (user_id, job_id)
new_application(user_id, job_id) ==
    [id |-> NextId(applied_jobs), user_id |-> user_id, job_id |-> job_id,
     applied_at |-> now, application_status |-> "Pending"]

create_job_application(token, job_id) ==
    LET auth == get_current_user(token, now) IN
    IF ~auth.ok THEN Unauthorized("create_job_application")
    ELSE LET checks == application_checks(auth.claim, job_id) IN
    IF checks.status # 0
    THEN Rejected("create_job_application", checks.status, checks.detail)
    ELSE LET applied_job == new_application(auth.claim.id, job_id) IN
         /\ applied_job.id <= MaxAppId
         /\ applied_jobs' = applied_jobs \cup {applied_job}
         /\ Reply("create_job_application", 201, "Job applied successfully",
                  applied_job)
         /\ UNCHANGED <<users, jobs, tokens, now, pending, sessions>>

\* create_job_application, its session interleaved with other requests: the
\* queries up to the duplicate check run first, the insert and commit later
create_job_application_begin(rid, token, job_id) ==
    /\ \A r \in pending : r.rid # rid
    /\ LET auth == get_current_user(token, now) IN
       IF ~auth.ok THEN Unauthorized("create_job_application")
       ELSE LET checks == application_checks(auth.claim, job_id) IN
       IF checks.status # 0
       THEN Rejected("create_job_application", checks.status, checks.detail)
       ELSE /\ pending' = pending \cup
                  {[rid |-> rid, user_id |-> auth.claim.id, job_id |-> job_id]}
            /\ last' = NoRequest
            /\ UNCHANGED <<users, jobs, applied_jobs, tokens, now, sessions>>

\* the commit against a unique constraint on (user_id, job_id)
create_job_application_commit_unique(r) ==
    IF \E a \in applied_jobs : a.user_id = r.user_id /\ a.job_id = r.job_id
    THEN /\ pending' = pending \ {r}
         /\ Reply("create_job_application", 500, "Internal Server Error", NoData)
         /\ UNCHANGED <<users, jobs, applied_jobs, tokens, now, sessions>>
    ELSE LET applied_job == new_application(r.user_id, r.job_id) IN
         /\ applied_job.id <= MaxAppId
         /\ applied_jobs' = applied_jobs \cup {applied_job}
         /\ pending' = pending \ {r}
         /\ Reply("create_job_application", 201, "Job applied successfully",
                  applied_job)
         /\ UNCHANGED <<users, jobs, tokens, now, sessions>>

create_job_application_commit(r) ==
    LET applied_job == new_application(r.user_id, r.job_id) IN
    /\ applied_job.id <= MaxAppId
    /\ applied_jobs' = applied_jobs \cup {applied_job}
    /\ pending' = pending \ {r}
    /\ Reply("create_job_application", 201, "Job applied successfully",
             applied_job)
    /\ UNCHANGED <<users, jobs, tokens, now, sessions>>

\* create_job comparing the role of the token instead of the persisted role
create_job_trusting_token(token, job_request) ==
    LET auth == get_current_user(token, now) IN
    IF ~auth.ok THEN Unauthorized("create_job")
    ELSE LET found == UserById(auth.claim.id) IN
    IF found = {} THEN Rejected("create_job", 404, "User not found")
    ELSE IF auth.claim.role # "ADMIN"
    THEN Rejected("create_job", 403,
                  "You do not have permission to perform this action")
    ELSE LET job == JobRow(NextId(jobs), job_request) IN
         /\ job.id <= MaxJobId
         /\ jobs' = jobs \cup {job}
         /\ Reply("create_job", 201, "Job created successfully", job)
         /\ UNCHANGED <<users, applied_jobs, tokens, now, pending, sessions>>

create_job(token, job_request) ==
    LET auth == get_current_user(token, now) IN
    IF ~auth.ok THEN Unauthorized("create_job")
    ELSE LET found == UserById(auth.claim.id) IN
    IF found = {} THEN Rejected("create_job", 404, "User not found")
    ELSE IF (CHOOSE u \in found : TRUE).role # "ADMIN"
    THEN Rejected("create_job", 403,
                  "You do not have permission to perform this action")
    ELSE LET job == JobRow(NextId(jobs), job_request) IN
         /\ job.id <= MaxJobId
         /\ jobs' = jobs \cup {job}
         /\ Reply("create_job", 201, "Job created successfully", job)
         /\ UNCHANGED <<users, applied_jobs, tokens, now, pending, sessions>>

\* update_job looking the job up before the acting user
update_job_job_first(token, job_request, job_id) ==
    LET auth == get_current_user(token, now) IN
    IF ~auth.ok THEN Unauthorized("update_job")
    ELSE LET job == JobById(job_id) IN
    IF job = {} THEN Rejected("update_job", 404, "Job not found")
    ELSE LET found == UserById(auth.claim.id) IN
    IF found = {} THEN Rejected("update_job", 404, "User not found")
    ELSE IF (CHOOSE u \in found : TRUE).role # "ADMIN"
    THEN Rejected("update_job", 403,
                  "You do not have permission to perform this action")
    ELSE /\ jobs' = (jobs \ job) \cup {JobRow(job_id, job_request)}
         /\ Reply("update_job", 204, "", NoData)
         /\ UNCHANGED <<users, applied_jobs, tokens, now, pending, sessions>>

update_job(token, job_request, job_id) ==
    LET auth == get_current_user(token, now) IN
    IF ~auth.ok THEN Unauthorized("update_job")
    ELSE LET found == UserById(auth.claim.id) IN
    IF found = {} THEN Rejected("update_job", 404, "User not found")
    ELSE IF (CHOOSE u \in found : TRUE).role # "ADMIN"
    THEN Rejected("update_job", 403,
                  "You do not have permission to perform this action")
    ELSE LET job == JobById(job_id) IN
    IF job = {} THEN Rejected("update_job", 404, "Job not found")
    ELSE /\ jobs' = (jobs \ job) \cup {JobRow(job_id, job_request)}
         /\ Reply("update_job", 204, "", NoData)
         /\ UNCHANGED <<users, applied_jobs, tokens, now, pending, sessions>>

(***************************************************************************)
(* routers/admin.py (DELETE /jobs/{job_id}): the router main.py includes   *)
(* and tests/test_jobs.py exercises.                                       *)
(***************************************************************************)
\* delete_job comparing the role of the token instead of the persisted role
delete_job_trusting_token(token, job_id) ==
    LET auth == get_current_user(token, now) IN
    IF ~auth.ok THEN Unauthorized("delete_job")
    ELSE LET found == UserById(auth.claim.id) IN
    IF found = {} THEN Rejected("delete_job", 404, "User not found")
    ELSE IF auth.claim.role # "ADMIN"
    THEN Rejected("delete_job", 403,
                  "You do not have permission to delete jobs")
    ELSE LET job == JobById(job_id) IN
    IF job = {} THEN Rejected("delete_job", 404, "Job not found")
    ELSE /\ jobs' = jobs \ job
         /\ applied_jobs' = {a \in applied_jobs : a.job_id # job_id}
         /\ Reply("delete_job", 204, "", NoData)
         /\ UNCHANGED <<users, tokens, now, pending, sessions>>

\* db.delete(job): the relationship Jobs.applicants cascades the delete
delete_job(token, job_id) ==
    LET auth == get_current_user(token, now) IN
    IF ~auth.ok THEN Unauthorized("delete_job")
    ELSE LET found == UserById(auth.claim.id) IN
    IF found = {} THEN Rejected("delete_job", 404, "User not found")
    ELSE IF (CHOOSE u \in found : TRUE).role # "ADMIN"
    THEN Rejected("delete_job", 403,
                  "You do not have permission to delete jobs")
    ELSE LET job == JobById(job_id) IN
    IF job = {} THEN Rejected("delete_job", 404, "Job not found")
    ELSE /\ jobs' = jobs \ job
         /\ applied_jobs' = {a \in applied_jobs : a.job_id # job_id}
         /\ Reply("delete_job", 204, "", NoData)
         /\ UNCHANGED <<users, tokens, now, pending, sessions>>

(***************************************************************************)
(* Requests.                                                               *)
(***************************************************************************)
UserRequests ==
    { [first_name |-> n.first_name, last_name |-> n.last_name,
       username |-> u, email |-> e, password |-> p, role |-> r] :
      n \in Names, u \in Usernames, e \in Emails, p \in Passwords,
      r \in UserRole }

UserUpdates ==
    { [first_name |-> n.first_name, last_name |-> n.last_name,
       username |-> u, email |-> e, role |-> r] :
      n \in Names, u \in Usernames, e \in Emails, r \in UserRole }

ChangePasswordRequests ==
    [old_password : Passwords, new_password : Passwords,
     confirm_password : Passwords]

NewPasswordRequests ==
    {password_update \in ChangePasswordRequests :
        password_update.new_password # password_update.old_password}

ConfirmedPasswordRequests ==
    {password_update \in NewPasswordRequests :
        password_update.confirm_password = password_update.new_password}

JobRequests ==
    { [title |-> "Test Job", company |-> "Test Company",
       location |-> "Test Location", min_salary |-> 10000,
       max_salary |-> 50000, remote_allowed |-> TRUE, views |-> 100],
      [title |-> "Other Job", company |-> "Test Company",
       location |-> "Remote", min_salary |-> 20000,
       max_salary |-> 60000, remote_allowed |-> FALSE, views |-> 1] }

\* registrations in which each username comes with its own email
PairedUserRequests ==
    {request \in UserRequests :
        /\ request.password = "test1234"
        /\ request.username = "jane_doe" <=> request.email = "janedoe@mail.com"}

PairedUserUpdates ==
    {update \in UserUpdates :
        update.username = "jane_doe" <=> update.email = "janedoe@mail.com"}

\* an administrator and an ordinary user
TwoUserRequests ==
    {request \in PairedUserRequests :
        request.role = (IF request.username = "jane_doe" THEN "ADMIN"
                        ELSE "USER")}

FirstPasswordRequests == {request \in UserRequests : request.password = "test1234"}

\* registrations and profile updates as USER or ADMIN
AccountRequests == {request \in FirstPasswordRequests : request.role # "RECRUITER"}
AccountUpdates == {update \in UserUpdates : update.role # "RECRUITER"}

TestJob == CHOOSE job_request \in JobRequests : job_request.title = "Test Job"
OtherJob == CHOOSE job_request \in JobRequests : job_request.title = "Other Job"

UserIds == 1..MaxUserId
JobIds == 1..MaxJobId


Init ==
    /\ users = {}
    /\ jobs = {}
    /\ applied_jobs = {}
    /\ tokens = {}
    /\ now = 0
    /\ last = NoRequest
    /\ pending = {}
    /\ sessions = {}

(***************************************************************************)
(* Accounts: registration, login, profile and user administration, one     *)
(* request at a time.                                                      *)
(***************************************************************************)
AccountTokens == tokens \cup {WrongKeyToken}

Next ==
    \/ \E request \in AccountRequests, salt \in Salts : create_user(request, salt)
    \/ \E username \in Usernames, password \in Passwords :
          create_token(username, password)
    \/ \E token \in AccountTokens : read_users(token, "", "", 1, 10)
    \/ \E token \in AccountTokens, user_id \in UserIds :
          delete_user(token, user_id)
    \/ \E token \in AccountTokens : read_user(token)
    \/ \E token \in AccountTokens, password_update \in NewPasswordRequests,
          salt \in Salts : change_password(token, password_update, salt)
    \/ \E token \in AccountTokens, update \in AccountUpdates :
          update_user(token, update)

Spec == Init /\ [][Next]_vars

\* the clock: time passes between requests
Tick ==
    /\ now < MaxClock * ClockStep
    /\ now' = now + ClockStep
    /\ last' = NoRequest
    /\ UNCHANGED <<users, jobs, applied_jobs, tokens, pending, sessions>>

(***************************************************************************)
(* Administration: the role-gated operations, one request at a time.       *)
(***************************************************************************)
NextAdmin ==
    \/ \E request \in PairedUserRequests, salt \in Salts :
          create_user(request, salt)
    \/ \E username \in Usernames, password \in Passwords :
          create_token(username, password)
    \/ \E token \in AccountTokens, update \in PairedUserUpdates :
          update_user(token, update)
    \/ \E token \in AccountTokens, user_id \in UserIds :
          delete_user(token, user_id)
    \/ \E token \in AccountTokens : read_users(token, "", "", 1, 10)
    \/ \E token \in AccountTokens : create_job(token, TestJob)
    \/ \E token \in AccountTokens, job_id \in JobIds :
          update_job(token, OtherJob, job_id)

SpecAdmin == Init /\ [][NextAdmin]_vars

(***************************************************************************)
(* Applications, one request at a time.                                    *)
(***************************************************************************)
NextApply ==
    \/ \E request \in TwoUserRequests, salt \in Salts :
          create_user(request, salt)
    \/ \E username \in Usernames : create_token(username, "test1234")
    \/ \E token \in AccountTokens : create_job(token, TestJob)
    \/ \E token \in AccountTokens, job_id \in JobIds :
          create_job_application(token, job_id)
    \/ \E token \in AccountTokens : read_applied_jobs(token, 1, 10)
    \/ \E token \in AccountTokens, user_id \in UserIds :
          delete_user(token, user_id)

SpecApply == Init /\ [][NextApply]_vars

(***************************************************************************)
(* Applications with interleaved requests.                                 *)
(***************************************************************************)
NextRace ==
    \/ \E request \in TwoUserRequests, salt \in Salts :
          create_user(request, salt)
    \/ \E username \in Usernames : create_token(username, "test1234")
    \/ \E token \in tokens : create_job(token, TestJob)
    \/ \E rid \in 1..MaxRequests, token \in tokens, job_id \in JobIds :
          create_job_application_begin(rid, token, job_id)
    \/ \E r \in pending : create_job_application_commit(r)

SpecRace == Init /\ [][NextRace]_vars

(***************************************************************************)
(* Login while time passes.                                                *)
(***************************************************************************)
NextLogin ==
    \/ \E request \in FirstPasswordRequests, salt \in Salts :
          create_user(request, salt)
    \/ \E username \in Usernames, password \in Passwords :
          create_token(username, password)
    \/ \E token \in tokens, update \in UserUpdates : update_user(token, update)
    \/ Tick

SpecLogin == Init /\ [][NextLogin]_vars

(***************************************************************************)
(* The bearer-protected routes under presented tokens, while time passes.  *)
(***************************************************************************)
JaneRequests == {request \in TwoUserRequests : request.username = "jane_doe"}
JaneUpdates ==
    {update \in PairedUserUpdates :
        update.username = "jane_doe" /\ update.role # "RECRUITER"}

NextAuth ==
    \/ \E request \in JaneRequests, salt \in Salts : create_user(request, salt)
    \/ \E password \in Passwords : create_token("jane_doe", password)
    \/ Tick
    \/ \E token \in PresentedTokens : read_applied_jobs(token, 1, 10)
    \/ \E token \in PresentedTokens, job_id \in JobIds :
          create_job_application(token, job_id)
    \/ \E token \in PresentedTokens : create_job(token, TestJob)
    \/ \E token \in PresentedTokens, job_id \in JobIds :
          update_job(token, TestJob, job_id)
    \/ \E token \in PresentedTokens : read_users(token, "", "", 1, 10)
    \/ \E token \in PresentedTokens, user_id \in UserIds :
          delete_user(token, user_id)
    \/ \E token \in PresentedTokens : read_user(token)
    \/ \E token \in PresentedTokens, update \in JaneUpdates :
          update_user(token, update)
    \/ \E token \in PresentedTokens, password_update \in ConfirmedPasswordRequests,
          salt \in Salts : change_password(token, password_update, salt)

SpecAuth == Init /\ [][NextAuth]_vars

(***************************************************************************)
(* Browsing: the paginated, filtered reads over a seeded catalogue of jobs. *)
(***************************************************************************)
\* the jobs table as the fixtures of the test suite seed it: n listings with
\* ids 1..n, alternately the test job and a better paid one
Listings(n) ==
    {JobRow(i, IF i % 2 = 1 THEN TestJob ELSE OtherJob) : i \in 1..n}

InitBrowse ==
    /\ users = {}
    /\ \E n \in 0..MaxListed : jobs = Listings(n)
    /\ applied_jobs = {}
    /\ tokens = {}
    /\ now = 0
    /\ last = NoRequest
    /\ pending = {}
    /\ sessions = {}

NoFilter ==
    [title |-> "", min_salary |-> <<>>, max_salary |-> <<>>,
     remote_allowed |-> <<>>]

\* the query strings of GET /jobs: one filter at a time, and two together
BrowseFilters ==
    { NoFilter,
      [NoFilter EXCEPT !.title = "test"],
      [NoFilter EXCEPT !.min_salary = <<10000>>],
      [NoFilter EXCEPT !.min_salary = <<15000>>],
      [NoFilter EXCEPT !.max_salary = <<50000>>],
      [NoFilter EXCEPT !.remote_allowed = <<TRUE>>],
      [NoFilter EXCEPT !.title = "job", !.min_salary = <<15000>>] }

Pages == 1..3
PageSizes == {1, 2, 100}
NameFilters == {"", "xyz"}

NextBrowse ==
    \/ \E request \in TwoUserRequests, salt \in Salts :
          create_user(request, salt)
    \/ \E username \in Usernames : create_token(username, "test1234")
    \/ \E token \in AccountTokens : create_job(token, TestJob)
    \/ \E f \in BrowseFilters, page \in Pages, page_size \in PageSizes :
          read_jobs(f.title, f.min_salary, f.max_salary, f.remote_allowed,
                    page, page_size)
    \/ \E job_id \in 1..MaxListed : read_job(job_id)
    \/ \E token \in AccountTokens, first_name \in NameFilters,
          page \in Pages, page_size \in PageSizes :
          read_users(token, first_name, "", page, page_size)

SpecBrowse == InitBrowse /\ [][NextBrowse]_vars

(***************************************************************************)
(* The catalogue: jobs created, applied to and deleted.                    *)
(***************************************************************************)
NextCatalogue ==
    \/ \E request \in TwoUserRequests, salt \in Salts :
          create_user(request, salt)
    \/ \E username \in Usernames : create_token(username, "test1234")
    \/ \E token \in AccountTokens : create_job(token, TestJob)
    \/ \E token \in AccountTokens, job_id \in JobIds :
          create_job_application(token, job_id)
    \/ \E token \in AccountTokens, user_id \in UserIds :
          delete_user(token, user_id)
    \/ \E token \in AccountTokens, job_id \in JobIds :
          delete_job(token, job_id)

SpecCatalogue == Init /\ [][NextCatalogue]_vars

(***************************************************************************)
(* Requests with their database sessions: get_db opens a session, the      *)
(* handler runs, get_db closes the session.                                *)
(***************************************************************************)
NextSession ==
    \/ get_db_enter
    \/ /\ InHandler
       /\ \E request \in TwoUserRequests, salt \in Salts :
             create_user(request, salt)
    \/ /\ InHandler
       /\ \E username \in Usernames, password \in Passwords :
             create_token(username, password)
    \/ /\ InHandler
       /\ \E token \in AccountTokens, update \in PairedUserUpdates :
             update_user(token, update)
    \/ \E s \in sessions : get_db_finally(s)

SpecSession == Init /\ [][NextSession]_vars

(***************************************************************************)
(* Profiles: users who hold applications update their profiles.            *)
(***************************************************************************)
NextProfile ==
    \/ \E request \in TwoUserRequests, salt \in Salts :
          create_user(request, salt)
    \/ \E username \in Usernames : create_token(username, "test1234")
    \/ \E token \in AccountTokens : create_job(token, TestJob)
    \/ \E token \in AccountTokens, job_id \in JobIds :
          create_job_application(token, job_id)
    \/ \E token \in AccountTokens, update \in PairedUserUpdates :
          update_user(token, update)

SpecProfile == Init /\ [][NextProfile]_vars

(***************************************************************************)
(* Properties of the account operations (specification Spec).              *)
(***************************************************************************)
PersistedAdmin(id) == \E u \in users : u.id = id /\ u.role = "ADMIN"

\* C1: delete_user by an acting ADMIN on a different existing user answers
\* 204 and removes the target's row; on the acting user's own row it answers
\* 403 and removes nothing.
C1_AdminDeletesOthersNotSelf ==
    [][\A token \in AccountTokens, user_id \in UserIds :
         ( /\ last'.op = "delete_user"
           /\ delete_user(token, user_id)
           /\ get_current_user(token, now).ok ) =>
            LET claim == get_current_user(token, now).claim IN
            /\ ( /\ claim.role = "ADMIN"
                 /\ PersistedAdmin(claim.id)
                 /\ claim.id # user_id
                 /\ UserById(user_id) # {} )
               => last'.status = 204 /\ users' = users \ UserById(user_id)
            /\ (claim.id = user_id /\ UserById(user_id) # {})
               => last'.status = 403 /\ users' = users]_vars

\* C2: delete_user removes a row only when the acting user's persisted row
\* exists with persisted role ADMIN, whatever role the token carries; for an
\* existing target a missing acting user is answered 404 and a persisted
\* non-admin 403.
C2_DeleteNeedsPersistedAdmin ==
    [][\A token \in AccountTokens, user_id \in UserIds :
         ( /\ last'.op = "delete_user"
           /\ delete_user(token, user_id)
           /\ get_current_user(token, now).ok ) =>
            LET claim == get_current_user(token, now).claim IN
            /\ users' # users => PersistedAdmin(claim.id)
            /\ (UserById(user_id) # {} /\ UserById(claim.id) = {})
               => last'.status = 404
            /\ ( /\ UserById(user_id) # {}
                 /\ UserById(claim.id) # {}
                 /\ ~PersistedAdmin(claim.id) )
               => last'.status = 403]_vars

\* C6: create_user with an email or a username that a stored user already
\* has answers 400 "Email or username already registered" and leaves the
\* users table unchanged.
C6_DuplicateRegistrationRejected ==
    [][\A request \in AccountRequests, salt \in Salts :
         ( /\ last'.op = "create_user"
           /\ create_user(request, salt)
           /\ \E u \in users : u.email = request.email
                               \/ u.username = request.username )
         => /\ last'.status = 400
            /\ last'.detail = "Email or username already registered"
            /\ users' = users]_vars

C6_Witness ==
    /\ last.op = "create_user"
    /\ last.status = 400
    /\ Cardinality(users) = 1

\* C7: no two rows of users share a username and no two share an email.
C7_UsernameEmailUnique ==
    \A u \in users, v \in users :
        u # v => u.username # v.username /\ u.email # v.email

C7_Witness ==
    /\ last.op = "update_user"
    /\ last.status = 500
    /\ Cardinality(users) = 2


(***************************************************************************)
(* Properties of the role-gated operations (specification SpecAdmin).      *)
(***************************************************************************)
\* what a role-gated handler must answer to the acting claim: 404 for a
\* missing acting user, 403 for a persisted USER or RECRUITER, both without
\* touching the store; success only for a persisted ADMIN
AdminGate(claim, success) ==
    /\ UserById(claim.id) = {}
       => /\ last'.status = 404
          /\ last'.detail = "User not found"
          /\ UNCHANGED <<users, jobs, applied_jobs>>
    /\ (\E u \in users : u.id = claim.id /\ u.role \in {"USER", "RECRUITER"})
       => /\ last'.status = 403
          /\ last'.detail = "You do not have permission to perform this action"
          /\ UNCHANGED <<users, jobs, applied_jobs>>
          /\ Cardinality(jobs') = Cardinality(jobs)
    /\ last'.status = success => PersistedAdmin(claim.id)

\* C3: create_job, update_job and read_users succeed only for an acting user
\* that exists with persisted role ADMIN; a missing acting user is answered
\* 404 "User not found", a persisted USER or RECRUITER 403, and in both cases
\* users, jobs and applied_jobs are unchanged.
C3_AdminGatedOperations ==
    [][\A token \in AccountTokens :
         get_current_user(token, now).ok =>
            LET claim == get_current_user(token, now).claim IN
            /\ create_job(token, TestJob) => AdminGate(claim, 201)
            /\ \A job_id \in JobIds :
                  update_job(token, OtherJob, job_id) => AdminGate(claim, 204)
            /\ read_users(token, "", "", 1, 10) => AdminGate(claim, 200)]_vars

\* a token issued as ADMIN is refused once the persisted role is not ADMIN
C3_Witness ==
    /\ last.op = "create_job"
    /\ last.status = 403
    /\ \E t \in tokens :
          /\ t.payload.role = "ADMIN"
          /\ \E u \in users : u.id = t.payload.id /\ u.role # "ADMIN"

(***************************************************************************)
(* Properties of the applications (SpecApply, SpecRace).                   *)
(***************************************************************************)
\* C4: with requests executed one at a time, applied_jobs holds at most one
\* row for each (user_id, job_id) pair.
C4_OneApplicationPerPair ==
    \A a \in applied_jobs, b \in applied_jobs :
        (a.user_id = b.user_id /\ a.job_id = b.job_id) => a = b

\* a second application for a pair was refused and one row persists
C4_Witness ==
    /\ last.op = "create_job_application"
    /\ last.status = 400
    /\ \E a \in applied_jobs :
          \A b \in applied_jobs :
              (a.user_id = b.user_id /\ a.job_id = b.job_id) => a = b

\* C5: a request that passed the existence check inserts its row when it
\* commits, whatever rows were committed in between: the store refuses no
\* second row for the pair, so two interleaved requests produce a duplicate.
C5_CommitAfterCheckAlwaysInserts ==
    [][\A r \in pending :
         create_job_application_commit(r) =>
            /\ last'.status = 201
            /\ \E a \in applied_jobs' \ applied_jobs :
                  /\ a.user_id = r.user_id
                  /\ a.job_id = r.job_id
                  /\ applied_jobs' = applied_jobs \cup {a}]_vars

\* two rows for one (user_id, job_id) pair
C5_Witness ==
    \E a \in applied_jobs, b \in applied_jobs :
        a # b /\ a.user_id = b.user_id /\ a.job_id = b.job_id

(***************************************************************************)
(* Properties of login and token decoding (SpecLogin, SpecAuth).           *)
(***************************************************************************)
\* C8: login with a stored username and the password that verifies against
\* its hash answers 201 with a token that decodes to the stored user's id,
\* username and role and expires ExpireMinutes after issuance, strictly later
\* than the issuance time.
C8_LoginTokenMatchesUser ==
    [][\A username \in Usernames, password \in Passwords :
         create_token(username, password) =>
            \A u \in users :
               (u.username = username
                /\ bcrypt_verify(password, u.hashed_password))
               => /\ last'.status = 201
                  /\ last'.data.token_type = "bearer"
                  /\ LET decoded == jwt_decode(last'.data.access_token, now) IN
                     /\ decoded.ok
                     /\ decoded.payload.id = u.id
                     /\ decoded.payload.sub = u.username
                     /\ decoded.payload.role = u.role
                     /\ decoded.payload.exp = now + ExpireMinutes
                     /\ decoded.payload.exp > now]_vars

\* a login after the clock has advanced, for a user whose profile changed
C8_Witness ==
    /\ last.op = "create_token"
    /\ last.status = 201
    /\ now > 0
    /\ last.data.access_token.payload.exp = now + ExpireMinutes
    /\ Cardinality(users) = 2

\* a token decodes when it is signed with the server secret, has not expired
\* and carries id and sub
TokenDecodes(token, t) ==
    /\ token.key = SECRET_KEY
    /\ ~(token.payload.exp < t)
    /\ "id" \in DOMAIN token.payload
    /\ "sub" \in DOMAIN token.payload

\* C9: get_current_user returns the claim {id, username, role} of the payload
\* exactly for a token signed with the server secret, not expired and carrying
\* id and sub; for any other token it fails (401) and returns no claim.
C9_GetCurrentUser ==
    \A token \in PresentedTokens :
        LET result == get_current_user(token, now) IN
        /\ result.ok <=> TokenDecodes(token, now)
        /\ result.ok => result.claim = [id |-> token.payload.id,
                                        username |-> token.payload.sub,
                                        role |-> token.payload.role]
        /\ ~result.ok => DOMAIN result = {"ok"}

\* an issued token has expired and a request was answered 401
C9_Witness ==
    /\ \E token \in tokens : token.payload.exp < now
    /\ last.status = 401
    /\ last.detail = "Could not validate credentials"

\* C10: on every bearer-protected route a request whose token fails decoding
\* is answered 401 and leaves users, jobs and applied_jobs unchanged.
ProtectedRequest(token) ==
    \/ last'.op = "read_applied_jobs" /\ read_applied_jobs(token, 1, 10)
    \/ /\ last'.op = "create_job_application"
       /\ \E job_id \in JobIds : create_job_application(token, job_id)
    \/ last'.op = "create_job" /\ create_job(token, TestJob)
    \/ /\ last'.op = "update_job"
       /\ \E job_id \in JobIds : update_job(token, TestJob, job_id)
    \/ last'.op = "read_users" /\ read_users(token, "", "", 1, 10)
    \/ /\ last'.op = "delete_user"
       /\ \E user_id \in UserIds : delete_user(token, user_id)
    \/ last'.op = "read_user" /\ read_user(token)
    \/ /\ last'.op = "update_user"
       /\ \E update \in JaneUpdates : update_user(token, update)
    \/ /\ last'.op = "change_password"
       /\ \E password_update \in ConfirmedPasswordRequests, salt \in Salts :
             change_password(token, password_update, salt)

C10_UndecodableTokenChangesNothing ==
    [][\A token \in PresentedTokens :
         (~TokenDecodes(token, now) /\ ProtectedRequest(token))
         => /\ last'.status = 401
            /\ last'.detail = "Could not validate credentials"
            /\ UNCHANGED <<users, jobs, applied_jobs>>]_vars

\* an expired token of an existing administrator was refused with jobs and
\* applications in the store
C10_Witness ==
    /\ last.status = 401
    /\ last.op = "create_job_application"
    /\ jobs # {}
    /\ applied_jobs # {}
    /\ \E token \in tokens :
          token.payload.exp < now /\ PersistedAdmin(token.payload.id)


(***************************************************************************)
(* Properties of login failures and of password changes (SpecLogin, Spec). *)
(***************************************************************************)
\* C11: create_token answers 404 "User not found" when no stored user has the
\* username and 401 "Incorrect password" when the user exists and the
\* password does not verify; in both cases no token is issued.  It answers
\* 201 with an access_token exactly when both checks pass.
C11_LoginFailuresIssueNoToken ==
    [][\A username \in Usernames, password \in Passwords :
         (last'.op = "create_token" /\ create_token(username, password)) =>
            LET found == {u \in users : u.username = username}
                verified == {u \in found :
                               bcrypt_verify(password, u.hashed_password)}
            IN /\ found = {}
                  => last'.status = 404 /\ last'.detail = "User not found"
               /\ (found # {} /\ verified = {})
                  => last'.status = 401 /\ last'.detail = "Incorrect password"
               /\ last'.status = 201 <=> verified # {}
               /\ last'.status # 201 => last'.data = NoData /\ tokens' = tokens
               /\ last'.status = 201
                  => /\ "access_token" \in DOMAIN last'.data
                     /\ tokens' = {last'.data.access_token}]_vars

\* a login with a wrong password was refused before any token was issued
C11_Witness ==
    /\ last.op = "create_token"
    /\ last.status = 401
    /\ users # {}
    /\ tokens = {}

\* C12: a successful change_password from p to n (n # p) leaves the acting
\* user's stored hash verifying n and not p; create_token answers 201 for the
\* password that verifies against the stored hash and 401 for any other; and
\* no step other than a successful change_password of that user changes a
\* stored hash.  Hence login with n succeeds and login with p fails with 401
\* until the user's next successful change_password.
C12_LoginFollowsPasswordChange ==
    [][/\ \A token \in AccountTokens, password_update \in NewPasswordRequests,
             salt \in Salts :
             ( /\ last'.op = "change_password"
               /\ change_password(token, password_update, salt)
               /\ last'.status = 204 )
             => \E u \in users' :
                   /\ u.id = get_current_user(token, now).claim.id
                   /\ bcrypt_verify(password_update.new_password,
                                    u.hashed_password)
                   /\ ~bcrypt_verify(password_update.old_password,
                                     u.hashed_password)
       /\ \A username \in Usernames, password \in Passwords :
             (last'.op = "create_token" /\ create_token(username, password))
             => \A u \in users :
                   u.username = username
                   => last'.status =
                         (IF bcrypt_verify(password, u.hashed_password)
                          THEN 201 ELSE 401)
       /\ \A u \in users, v \in users' :
             (u.id = v.id /\ u.hashed_password # v.hashed_password)
             => /\ last'.op = "change_password"
                /\ last'.status = 204
                /\ \E token \in AccountTokens :
                      /\ get_current_user(token, now).ok
                      /\ get_current_user(token, now).claim.id = u.id]_vars

\* every account was registered with "test1234"; after the change to
\* "test12345" a login with the old password is refused
C12_Witness ==
    /\ last.op = "create_token"
    /\ last.status = 401
    /\ users # {}
    /\ \A u \in users : bcrypt_verify("test12345", u.hashed_password)

\* C13: change_password by an existing acting user answers 400 "Wrong old
\* password" when the old password does not verify, also when the
\* confirmation differs as well, and 400 "Passwords do not match" when the old
\* password verifies and the new password differs from the confirmation; in
\* both cases users, jobs and applied_jobs are unchanged.
C13_PasswordChangeRejected ==
    [][\A token \in AccountTokens, password_update \in NewPasswordRequests,
          salt \in Salts :
         ( /\ last'.op = "change_password"
           /\ change_password(token, password_update, salt)
           /\ get_current_user(token, now).ok
           /\ UserById(get_current_user(token, now).claim.id) # {} ) =>
            LET user == CHOOSE u \in users :
                           u.id = get_current_user(token, now).claim.id
                wrong_old == ~bcrypt_verify(password_update.old_password,
                                            user.hashed_password)
                mismatch == password_update.new_password
                               # password_update.confirm_password
            IN /\ wrong_old
                  => /\ last'.status = 400
                     /\ last'.detail = "Wrong old password"
                     /\ UNCHANGED <<users, jobs, applied_jobs>>
               /\ (~wrong_old /\ mismatch)
                  => /\ last'.status = 400
                     /\ last'.detail = "Passwords do not match"
                     /\ UNCHANGED <<users, jobs, applied_jobs>>]_vars

\* a password change was refused for the old password after an earlier change
C13_Witness ==
    /\ last.op = "change_password"
    /\ last.status = 400
    /\ last.detail = "Wrong old password"
    /\ \E u \in users : bcrypt_verify("test12345", u.hashed_password)

(***************************************************************************)
(* Properties of the paginated reads (SpecBrowse).                         *)
(***************************************************************************)
\* total_pages is ceil(count / page_size): the least k with k * page_size >=
\* count; a page at or beyond the end of the count rows is empty, and a page
\* within them holds its rows
Paginated(page, page_size, count, total_pages, items) ==
    /\ total_pages >= 0
    /\ total_pages * page_size >= count
    /\ total_pages > 0 => (total_pages - 1) * page_size < count
    /\ (page - 1) * page_size >= count => Len(items) = 0
    /\ (page - 1) * page_size < count
       => /\ Len(items) > 0
          /\ Len(items) <= page_size
          /\ (page - 1) * page_size + Len(items) <= count

\* C14: read_jobs, and read_users for a persisted ADMIN, answer 200 for every
\* page >= 1 and page_size, with total_pages = ceil(N / page_size) for the N
\* filtered rows (0 when N = 0) and an empty item list when
\* (page - 1) * page_size >= N.
C14_Pagination ==
    [][/\ \A f \in BrowseFilters, page \in Pages, page_size \in PageSizes :
             ( /\ last'.op = "read_jobs"
               /\ read_jobs(f.title, f.min_salary, f.max_salary,
                            f.remote_allowed, page, page_size) )
             => /\ last'.status = 200
                /\ Paginated(page, page_size, last'.data.filtered_jobs_count,
                             last'.data.total_pages, last'.data.jobs)
       /\ \A token \in AccountTokens, first_name \in NameFilters,
             page \in Pages, page_size \in PageSizes :
             ( /\ last'.op = "read_users"
               /\ read_users(token, first_name, "", page, page_size)
               /\ get_current_user(token, now).ok
               /\ PersistedAdmin(get_current_user(token, now).claim.id) )
             => /\ last'.status = 200
                /\ Paginated(page, page_size, last'.data.filtered_user_count,
                             last'.data.total_pages, last'.data.users)]_vars

\* three rows in pages of two: two pages, and the third page is empty
C14_Witness ==
    /\ last.op = "read_jobs"
    /\ last.status = 200
    /\ last.data.filtered_jobs_count = 3
    /\ last.data.page_size = 2
    /\ last.data.total_pages = 2
    /\ last.data.page = 3
    /\ last.data.jobs = <<>>

\* C15: read_jobs reports total_jobs = the number of stored jobs whatever the
\* filters, filtered_jobs_count <= total_jobs, and with min_salary = m as the
\* only filter filtered_jobs_count = the number of stored jobs whose
\* min_salary >= m; the job an admin created with min_salary 10000 is counted
\* for m = 10000 and not for m = 15000.
C15_MinSalaryFilter ==
    [][\A f \in BrowseFilters, page \in Pages, page_size \in PageSizes :
         ( /\ last'.op = "read_jobs"
           /\ read_jobs(f.title, f.min_salary, f.max_salary,
                        f.remote_allowed, page, page_size) )
         => /\ last'.data.total_jobs = Cardinality(jobs)
            /\ last'.data.filtered_jobs_count <= last'.data.total_jobs
            /\ \A m \in {10000, 15000} :
                  f = [NoFilter EXCEPT !.min_salary = <<m>>]
                  => /\ last'.data.filtered_jobs_count =
                           Cardinality({j \in jobs : j.min_salary >= m})
                     /\ jobs = {JobRow(1, TestJob)}
                        => last'.data.filtered_jobs_count =
                              (IF m = 10000 THEN 1 ELSE 0)]_vars

\* the one stored job is the test job (min_salary 10000, max_salary 50000,
\* remote) an admin created: of BrowseFilters only min_salary = 15000 excludes it
C15_Witness ==
    /\ last.op = "read_jobs"
    /\ jobs = {JobRow(1, TestJob)}
    /\ \E u \in users : u.role = "ADMIN"
    /\ last.data.total_jobs = 1
    /\ last.data.filtered_jobs_count = 0

(***************************************************************************)
(* Properties of the stored applications (SpecApply).                      *)
(***************************************************************************)
\* C16: every applied_jobs row has application_status "Pending":
\* create_job_application sets it and no operation changes it.
C16_StatusAlwaysPending ==
    \A a \in applied_jobs : a.application_status = "Pending"

\* two users have applied
C16_Witness ==
    /\ last.op = "create_job_application"
    /\ last.status = 201
    /\ last.data.application_status = "Pending"
    /\ Cardinality(applied_jobs) = 2

\* C17: every applied_jobs row references a stored user and a stored job:
\* delete_user removes the applications of the deleted user in the same step.
C17_NoOrphanApplication ==
    \A a \in applied_jobs : UserById(a.user_id) # {} /\ JobById(a.job_id) # {}

\* a user who had applied first was deleted: the application with id 1 is
\* gone and the other user's, with id 2, remains
C17_Witness ==
    /\ last.op = "delete_user"
    /\ last.status = 204
    /\ \E a \in applied_jobs : a.id = 2
    /\ \A a \in applied_jobs : a.id # 1

(***************************************************************************)
(* Properties of job deletion (SpecCatalogue).                             *)
(***************************************************************************)
\* C18: delete_job by an acting user that exists with persisted role ADMIN on
\* an existing job answers 204 and removes the job; a missing acting user is
\* answered 404 "User not found", a persisted non-admin 403 "You do not have
\* permission to delete jobs", a missing job 404 "Job not found", and in
\* these three cases no job is removed.
C18_DeleteJob ==
    [][\A token \in AccountTokens, job_id \in JobIds :
         ( /\ last'.op = "delete_job"
           /\ delete_job(token, job_id)
           /\ get_current_user(token, now).ok ) =>
            LET claim == get_current_user(token, now).claim IN
            /\ (PersistedAdmin(claim.id) /\ JobById(job_id) # {})
               => /\ last'.status = 204
                  /\ jobs' = jobs \ JobById(job_id)
                  /\ \A j \in jobs' : j.id # job_id
            /\ UserById(claim.id) = {}
               => /\ last'.status = 404
                  /\ last'.detail = "User not found"
                  /\ jobs' = jobs
            /\ (UserById(claim.id) # {} /\ ~PersistedAdmin(claim.id))
               => /\ last'.status = 403
                  /\ last'.detail = "You do not have permission to delete jobs"
                  /\ jobs' = jobs
            /\ (PersistedAdmin(claim.id) /\ JobById(job_id) = {})
               => /\ last'.status = 404
                  /\ last'.detail = "Job not found"
                  /\ jobs' = jobs]_vars

\* an administrator deleted the only job, with an ordinary user registered
C18_Witness ==
    /\ last.op = "delete_job"
    /\ last.status = 204
    /\ jobs = {}
    /\ applied_jobs = {}
    /\ \E u \in users : u.role = "ADMIN"
    /\ \E u \in users : u.role = "USER"

(***************************************************************************)
(* Properties of the database sessions (SpecSession).                      *)
(***************************************************************************)
\* C19: a session that get_db opened is open while its request runs and is
\* closed exactly once when the request has ended, whether the handler
\* returned, raised an HTTPException or its commit raised; when every request
\* has ended no session is open.
C19_SessionClosedOnce ==
    /\ \A s \in sessions :
          /\ s.closes <= 1
          /\ s.pc = "yielded" => s.open /\ s.closes = 0
          /\ s.pc = "done" => ~s.open /\ s.closes = 1
    /\ (\A s \in sessions : s.pc = "done") => \A s \in sessions : ~s.open

\* requests have ended on each exit path, the last one by a commit that raised
C19_Witness ==
    /\ last.status = 500
    /\ Cardinality(sessions) = 4
    /\ \A s \in sessions : s.pc = "done" /\ ~s.open /\ s.closes = 1

(***************************************************************************)
(* Properties of issued tokens (SpecAuth).                                 *)
(***************************************************************************)
\* the token the client holds and the tokens that logins of the stored users
\* at earlier clock readings issued
IssuedTokens ==
    tokens \cup
    {create_access_token(u.id, u.username, u.role, ExpireMinutes, t) :
        u \in users, t \in {k * ClockStep : k \in 0..(now \div ClockStep)}}

\* C20: a token issued at t with lifetime ttl (exp = t + ttl) is accepted by
\* get_current_user at every time before exp and rejected at every time after
\* exp, whatever happened to the store since it was issued: a password change,
\* a profile update, the deletion of its user or a later login revokes nothing.
C20_TokenValidUntilExpiry ==
    \A token \in IssuedTokens :
        /\ now < token.payload.exp => get_current_user(token, now).ok
        /\ now > token.payload.exp => ~get_current_user(token, now).ok

\* the holder of an unexpired token has been deleted: the token is still
\* accepted and the profile read is answered 404, not 401
C20_Witness ==
    /\ now > 0
    /\ last.op = "read_user"
    /\ last.status = 404
    /\ \E token \in tokens :
          /\ now < token.payload.exp
          /\ UserById(token.payload.id) = {}
          /\ get_current_user(token, now).ok

(***************************************************************************)
(* Properties of the response bodies (Spec).                               *)
(***************************************************************************)
\* C21: the data of a successful create_user or read_user response is exactly
\* the fields id, first_name, last_name, username, email and role of the
\* stored user, and a successful login response is exactly access_token and
\* token_type, the token carrying id, sub, role and exp: no response holds
\* hashed_password or the password.
C21_NoPasswordInResponses ==
    /\ (last.op \in {"create_user", "read_user"} /\ last.status \in {200, 201})
       => /\ DOMAIN last.data = {"id", "first_name", "last_name", "username",
                                 "email", "role"}
          /\ \E u \in users :
                /\ u.id = last.data.id
                /\ \A field \in DOMAIN last.data : last.data[field] = u[field]
    /\ (last.op = "create_token" /\ last.status = 201)
       => /\ DOMAIN last.data = {"access_token", "token_type"}
          /\ DOMAIN last.data.access_token.payload = {"id", "sub", "role", "exp"}
    /\ (last.op \in {"create_user", "read_user", "create_token"}
        /\ last.status >= 400)
       => last.data = NoData

\* the profile of a user who has a stored hash was returned
C21_Witness ==
    /\ last.op = "read_user"
    /\ last.status = 200
    /\ \E u \in users :
          /\ u.id = last.data.id
          /\ "hashed_password" \in DOMAIN u
          /\ "hashed_password" \notin DOMAIN last.data

(***************************************************************************)
(* Properties of the profile update (SpecProfile).                         *)
(***************************************************************************)
\* C22: a successful update_user (204) sets the acting user's first_name,
\* last_name, username, email and role to the values of the request and
\* leaves that user's id and hashed_password, every other row of users, and
\* jobs and applied_jobs unchanged.
C22_UpdateUserFrame ==
    [][\A token \in AccountTokens, update \in PairedUserUpdates :
         ( /\ last'.op = "update_user"
           /\ update_user(token, update)
           /\ last'.status = 204 ) =>
            LET id == get_current_user(token, now).claim.id
                before == CHOOSE u \in users : u.id = id
            IN /\ \E after \in users' :
                     /\ after.id = id
                     /\ \A field \in DOMAIN update : after[field] = update[field]
                     /\ after.hashed_password = before.hashed_password
                     /\ DOMAIN after = DOMAIN before
                     /\ users' \ {after} = users \ {before}
               /\ jobs' = jobs
               /\ applied_jobs' = applied_jobs]_vars

\* a user with an application changed role next to another user
C22_Witness ==
    /\ last.op = "update_user"
    /\ last.status = 204
    /\ Cardinality(users) = 2
    /\ jobs # {}
    /\ \E u \in users :
          /\ u.role = "RECRUITER"
          /\ \E a \in applied_jobs : a.user_id = u.id

(***************************************************************************)
(* Properties of create_job_application (SpecApply).                       *)
(***************************************************************************)
\* C23: create_job_application adds a row if and only if the job exists, the
\* acting user exists and no row for (acting user, job) exists; then exactly
\* one row (user_id of the token, job_id of the path, "Pending") is added and
\* the answer is 201.  Otherwise the answer is 404 "Job not found" (checked
\* first), 404 "User not found" or 400 "You have already applied for this
\* job", and users, jobs and applied_jobs are unchanged.
C23_ApplicationIffChecksPass ==
    [][\A token \in AccountTokens, job_id \in JobIds :
         ( /\ last'.op = "create_job_application"
           /\ create_job_application(token, job_id)
           /\ get_current_user(token, now).ok ) =>
            LET id == get_current_user(token, now).claim.id
                no_job == JobById(job_id) = {}
                no_user == UserById(id) = {}
                applied == \E a \in applied_jobs :
                               a.user_id = id /\ a.job_id = job_id
            IN /\ applied_jobs' # applied_jobs
                  <=> (~no_job /\ ~no_user /\ ~applied)
               /\ (~no_job /\ ~no_user /\ ~applied)
                  => /\ last'.status = 201
                     /\ \E a \in applied_jobs' \ applied_jobs :
                           /\ applied_jobs' = applied_jobs \cup {a}
                           /\ a.user_id = id
                           /\ a.job_id = job_id
                           /\ a.application_status = "Pending"
                     /\ UNCHANGED <<users, jobs>>
               /\ no_job
                  => /\ last'.status = 404
                     /\ last'.detail = "Job not found"
               /\ (~no_job /\ no_user)
                  => /\ last'.status = 404
                     /\ last'.detail = "User not found"
               /\ (~no_job /\ ~no_user /\ applied)
                  => /\ last'.status = 400
                     /\ last'.detail = "You have already applied for this job"
               /\ (no_job \/ no_user \/ applied)
                  => UNCHANGED <<users, jobs, applied_jobs>>]_vars

\* a deleted user's token applied to an existing job
C23_Witness ==
    /\ last.op = "create_job_application"
    /\ last.status = 404
    /\ last.detail = "User not found"
    /\ jobs # {}

(***************************************************************************)
(* Properties of requests by a user that is not stored (SpecAuth).         *)
(***************************************************************************)
\* the four routes that act on the token's own user
OwnUserRequest(token) ==
    \/ last'.op = "read_user" /\ read_user(token)
    \/ /\ last'.op = "update_user"
       /\ \E update \in JaneUpdates : update_user(token, update)
    \/ /\ last'.op = "change_password"
       /\ \E password_update \in ConfirmedPasswordRequests, salt \in Salts :
             change_password(token, password_update, salt)
    \/ last'.op = "read_applied_jobs" /\ read_applied_jobs(token, 1, 10)

\* C24: for a token that decodes and whose id matches no row of users, each
\* of read_user, update_user, change_password and read_applied_jobs answers
\* 404 "User not found" and leaves users, jobs and applied_jobs unchanged.
C24_MissingUserNotFound ==
    [][\A token \in PresentedTokens :
         ( /\ TokenDecodes(token, now)
           /\ UserById(token.payload.id) = {}
           /\ OwnUserRequest(token) )
         => /\ last'.status = 404
            /\ last'.detail = "User not found"
            /\ UNCHANGED <<users, jobs, applied_jobs>>]_vars

\* the user of an unexpired token has been deleted and asks for a new password
C24_Witness ==
    /\ last.op = "change_password"
    /\ last.status = 404
    /\ last.detail = "User not found"
    /\ users = {}
    /\ \E token \in tokens : TokenDecodes(token, now)

(***************************************************************************)
(* Properties of update_job (SpecAdmin).                                   *)
(***************************************************************************)
\* C25: update_job checks, in this order, that the acting user exists, that
\* its persisted role is ADMIN and that the job exists: a missing acting
\* user gets 404 "User not found" whatever the job id, an existing non-admin
\* gets 403 even for a job that does not exist, 404 "Job not found" goes only
\* to an existing ADMIN, and the job row is overwritten with the request's
\* fields only when all three checks pass.
C25_UpdateJobCheckOrder ==
    [][\A token \in AccountTokens, job_id \in JobIds :
         ( /\ last'.op = "update_job"
           /\ TokenDecodes(token, now)
           /\ update_job(token, OtherJob, job_id) )
         => LET no_user == UserById(token.payload.id) = {}
                admin == PersistedAdmin(token.payload.id)
                no_job == JobById(job_id) = {}
            IN /\ no_user => /\ last'.status = 404
                             /\ last'.detail = "User not found"
               /\ (~no_user /\ ~admin) => last'.status = 403
               /\ (admin /\ no_job) => /\ last'.status = 404
                                       /\ last'.detail = "Job not found"
               /\ (last'.detail = "Job not found") => admin
               /\ (admin /\ ~no_job)
                     => /\ last'.status = 204
                        /\ jobs' = (jobs \ JobById(job_id))
                                      \cup {JobRow(job_id, OtherJob)}
               /\ (jobs' # jobs) => (admin /\ ~no_job)
               /\ UNCHANGED <<users, applied_jobs>>]_vars

\* an ordinary user was refused the update of a job that does not exist
C25_Witness ==
    /\ last.op = "update_job"
    /\ last.status = 403
    /\ jobs = {}
    /\ \E token \in tokens :
          /\ TokenDecodes(token, now)
          /\ \E u \in users : u.id = token.payload.id /\ u.role = "USER"

(***************************************************************************)
(* The read routes over a store with listings, users and applications.     *)
(***************************************************************************)
NextApplied ==
    \/ \E request \in TwoUserRequests, salt \in Salts :
          create_user(request, salt)
    \/ \E username \in Usernames, password \in Passwords :
          create_token(username, password)
    \/ \E token \in AccountTokens, job_id \in 1..MaxListed :
          create_job_application(token, job_id)
    \/ \E token \in AccountTokens, page \in Pages, page_size \in PageSizes :
          read_applied_jobs(token, page, page_size)
    \/ \E token \in AccountTokens : read_user(token)
    \/ \E token \in AccountTokens : read_users(token, "", "", 1, 10)
    \/ read_jobs(NoFilter.title, NoFilter.min_salary, NoFilter.max_salary,
                 NoFilter.remote_allowed, 1, 100)
    \/ \E job_id \in 1..MaxListed : read_job(job_id)

SpecApplied == InitBrowse /\ [][NextApplied]_vars

\* the applied_jobs rows of one user
ApplicationsOf(user_id) == {a \in applied_jobs : a.user_id = user_id}

\* C26: read_applied_jobs reports as applied_jobs_count the total number of
\* applications of the acting user, and as total_pages the ceiling of that
\* total over page_size, whichever page is requested.
C26_AppliedCountIsTotal ==
    [][\A token \in AccountTokens, page \in Pages, page_size \in PageSizes :
         ( /\ last'.op = "read_applied_jobs"
           /\ last'.status = 200
           /\ last'.data.page = page
           /\ last'.data.page_size = page_size
           /\ read_applied_jobs(token, page, page_size) )
         => LET total == Cardinality(ApplicationsOf(token.payload.id))
            IN /\ last'.data.applied_jobs_count = total
               /\ last'.data.total_pages = CeilDiv(total, page_size)]_vars

\* C27: read_applied_jobs returns the page cut from the acting user's own
\* rows alone, so the list never holds a row of another user and does not
\* depend on the applications of other users.
C27_AppliedJobsIsolation ==
    [][\A token \in AccountTokens, page \in Pages, page_size \in PageSizes :
         ( /\ last'.op = "read_applied_jobs"
           /\ last'.status = 200
           /\ last'.data.page = page
           /\ last'.data.page_size = page_size
           /\ read_applied_jobs(token, page, page_size) )
         => /\ \A i \in 1..Len(last'.data.jobs) :
                  last'.data.jobs[i].user_id = token.payload.id
            /\ last'.data.jobs
                  = LimitOffset(ApplicationsOf(token.payload.id), page_size,
                                (page - 1) * page_size)]_vars

\* one user read its single application while another user's is stored
C27_Witness ==
    /\ last.op = "read_applied_jobs"
    /\ last.status = 200
    /\ Len(last.data.jobs) = 1
    /\ \E a, b \in applied_jobs : a.user_id # b.user_id

ReadOps ==
    {"read_jobs", "read_job", "read_applied_jobs", "read_users", "read_user",
     "create_token"}

\* C30: read_jobs, read_job, read_applied_jobs, read_users, read_user and
\* login, whether they succeed or fail, leave users, jobs (with each job's
\* views) and applied_jobs as they were.
C30_ReadsKeepStore ==
    [][last'.op \in ReadOps => UNCHANGED <<users, jobs, applied_jobs>>]_vars

\* a job with applications was read and its views counter was not advanced
C30_Witness ==
    /\ last.op = "read_job"
    /\ last.status = 200
    /\ last.data.views = TestJob.views
    /\ \E j \in jobs : j.id = last.data.id /\ j.views = TestJob.views
    /\ \E a \in applied_jobs : a.job_id = last.data.id

(***************************************************************************)
(* Registrations with interleaved requests.                                *)
(***************************************************************************)
\* registrations as USER, with every pairing of username and email
RegisterRequests == {request \in FirstPasswordRequests : request.role = "USER"}

NextRegister ==
    \/ \E rid \in 1..MaxRequests, request \in RegisterRequests, salt \in Salts :
          create_user_begin(rid, request, salt)
    \/ \E r \in pending : create_user_commit(r)
    \/ \E username \in Usernames : create_token(username, "test1234")
    \/ \E token \in AccountTokens : read_user(token)

SpecRegister == Init /\ [][NextRegister]_vars

\* C28: with create_user requests interleaved so that several pass the
\* existence check before any commits, every username and every email is
\* held by at most one row of users: of the requests sharing a username or
\* an email at most one insert is committed.
C28_InterleavedRegistrationsUnique ==
    /\ \A username \in Usernames :
          Cardinality({u \in users : u.username = username}) <= 1
    /\ \A email \in Emails :
          Cardinality({u \in users : u.email = email}) <= 1

\* a registration that had passed the existence check failed at its commit
\* against the row another registration committed in between
C28_Witness ==
    /\ last.op = "create_user"
    /\ last.status = 500
    /\ Cardinality(users) = 1

(***************************************************************************)
(* Properties of the requested role (SpecAdmin).                           *)
(***************************************************************************)
\* a token issued to a USER whose row has the role ADMIN by now
EscalatedToken(token) ==
    /\ TokenDecodes(token, now)
    /\ token.payload.role = "USER"
    /\ PersistedAdmin(token.payload.id)

\* C29: update_user stores the requested role whatever the acting user's
\* persisted role, so a persisted USER makes itself ADMIN with its own
\* token; create_user stores the requested role; and create_job, update_job
\* and read_users then succeed for that same token, issued to a USER.
C29_RoleSelfEscalation ==
    [][/\ \A token \in AccountTokens, update \in PairedUserUpdates :
            ( /\ last'.op = "update_user"
              /\ TokenDecodes(token, now)
              /\ \E u \in users : /\ u.id = token.payload.id
                                  /\ u.role = "USER"
                                  /\ update.role = "ADMIN"
                                  /\ \A o \in users \ {u} :
                                        /\ o.username # update.username
                                        /\ o.email # update.email
              /\ update_user(token, update) )
            => /\ last'.status = 204
               /\ \E u \in users' : u.id = token.payload.id /\ u.role = "ADMIN"
       /\ \A request \in PairedUserRequests, salt \in Salts :
            ( /\ last'.op = "create_user"
              /\ last'.status = 201
              /\ create_user(request, salt) )
            => \E u \in users' \ users : /\ u.username = request.username
                                         /\ u.role = request.role
       /\ \A token \in AccountTokens :
            EscalatedToken(token)
            => /\ (last'.op = "create_job" /\ create_job(token, TestJob))
                     => last'.status = 201
               /\ ( /\ last'.op = "read_users"
                    /\ read_users(token, "", "", 1, 10) )
                     => last'.status = 200
               /\ \A job_id \in JobIds :
                     ( /\ last'.op = "update_job"
                       /\ JobById(job_id) # {}
                       /\ update_job(token, OtherJob, job_id) )
                     => last'.status = 204]_vars

\* a job was created with a token issued to a USER that made itself ADMIN
C29_Witness ==
    /\ last.op = "create_job"
    /\ last.status = 201
    /\ \E token \in tokens : EscalatedToken(token)

====
